---- MODULE Spec2Model ----
(***************************************************************************)
(* The "2047 Predictions" page of src/app.py: the Strength Scorer          *)
(* (create_strength_score), the Growth Trajectory Estimator                *)
(* (analyze_growth_trajectory), the Projection Ranker                      *)
(* (predict_future_ranking) and the try/except block that runs them.       *)
(*                                                                         *)
(* Floats are modelled as exact rationals <<n, d>> in lowest terms with    *)
(* d > 0; <<0, 0>> is NaN.  The only irrational operation, the square root *)
(* of StandardScaler, is rounded down to the grid 1/SqrtGrid, as is the    *)
(* quotient it feeds.                                                      *)
(***************************************************************************)
EXTENDS Integers, Sequences, FiniteSets, TLC

(***************************************************************************)
(* Bounds of the model.                                                    *)
(***************************************************************************)
NCountries == 3
MaxLevel == 2
MaxSlope == 2
MaxStride == 2
MaxValid == 7
MaxRuns == 2
SqrtGrid == 100

(***************************************************************************)
(* Rational arithmetic.                                                    *)
(***************************************************************************)
Abs(x) == IF x < 0 THEN -x ELSE x

RECURSIVE Gcd(_, _)
Gcd(a, b) == IF b = 0 THEN a ELSE Gcd(b, a % b)

NaN == <<0, 0>>
IsNaN(r) == r[2] = 0

Rat(n, d) ==
    IF d = 0 THEN NaN
    ELSE LET g == Gcd(Abs(n), Abs(d))
             s == IF d < 0 THEN -1 ELSE 1
         IN  <<(s * n) \div g, (s * d) \div g>>

Zero == <<0, 1>>
One == <<1, 1>>

\* least common denominator of two rationals that are not NaN
Lcd(a, b) == (a[2] \div Gcd(a[2], b[2])) * b[2]

RAdd(a, b) ==
    IF IsNaN(a) \/ IsNaN(b) THEN NaN
    ELSE Rat(a[1] * (Lcd(a, b) \div a[2]) + b[1] * (Lcd(a, b) \div b[2]), Lcd(a, b))

RNeg(a) == <<-a[1], a[2]>>

RSub(a, b) == RAdd(a, RNeg(b))

RMul(a, b) ==
    IF IsNaN(a) \/ IsNaN(b) THEN NaN
    ELSE LET x == Rat(a[1], b[2])
             y == Rat(b[1], a[2])
         IN  Rat(x[1] * y[1], x[2] * y[2])

\* a / b; division by zero is never reached by the code and yields NaN here
RDiv(a, b) ==
    IF IsNaN(a) \/ IsNaN(b) \/ b[1] = 0 THEN NaN
    ELSE RMul(a, IF b[1] < 0 THEN <<-b[2], -b[1]>> ELSE <<b[2], b[1]>>)

\* Comparisons with NaN are false, as in IEEE arithmetic.
RLess(a, b) ==
    /\ ~IsNaN(a)
    /\ ~IsNaN(b)
    /\ a[1] * (Lcd(a, b) \div a[2]) < b[1] * (Lcd(a, b) \div b[2])

RLeq(a, b) ==
    /\ ~IsNaN(a)
    /\ ~IsNaN(b)
    /\ a[1] * (Lcd(a, b) \div a[2]) <= b[1] * (Lcd(a, b) \div b[2])

RECURSIVE RSum(_)
RSum(s) == IF s = <<>> THEN Zero ELSE RAdd(s[1], RSum(Tail(s)))

RECURSIVE IsqrtIn(_, _, _)
IsqrtIn(n, lo, hi) ==
    IF lo >= hi THEN lo
    ELSE LET mid == (lo + hi + 1) \div 2
         IN  IF mid * mid <= n THEN IsqrtIn(n, mid, hi) ELSE IsqrtIn(n, lo, mid - 1)

\* floor(sqrt(n)) for n >= 0
Isqrt(n) == IsqrtIn(n, 0, IF n < 46340 THEN n ELSE 46340)

(***************************************************************************)
(* Cells of the source tables, as pd.read_csv leaves them: a number, a     *)
(* null (NaN), a string that parses as a number ("12"), or a string that   *)
(* does not ("1,234", "n/a").                                              *)
(***************************************************************************)
Num(n) == [k |-> "num", v |-> n]
Null == [k |-> "nan", v |-> 0]
Text == [k |-> "text", v |-> 0]
NumText(n) == [k |-> "numtext", v |-> n]

\* the function s with domain 1..n as a tuple
AsSeq(s) == s \o <<>>

IsNull(cell) == cell.k = "nan"
IsString(cell) == cell.k \in {"text", "numtext"}

power_columns ==
    << "total_national_populations", "active_service_military_manpower",
       "total_military_aircraft_strength", "total_combat_tank_strength",
       "navy_strength", "national_annual_defense_budgets",
       "purchasing_power_parities" >>

PowerCols == 1..Len(power_columns)

(***************************************************************************)
(* State.                                                                  *)
(*   cache              what st.cache_data keeps of load_data's return     *)
(*                      value (app.py:194-200): the two tables as read     *)
(*                      from the CSV files                                 *)
(*   military_strength  the country table of this run of the script        *)
(*                      (module-level, app.py:202): a sequence of rows     *)
(*                      [country, country_code, ind, pwr_index], ind the   *)
(*                      seven power_columns cells                          *)
(*   defense_budget     the budget table: [columns, rows], columns the set *)
(*                      of year columns it has, rows [code, val]           *)
(*   strength_df        the table create_strength_score returned; the same *)
(*                      object is projection_df after step 2               *)
(*   future_ranking     the table predict_future_ranking returned          *)
(*   pc                 where the try block of the page stands             *)
(*   target_year, weights   the Ranker's argument and its two locals       *)
(*   raised             the exception that reached the page's except       *)
(*   runs               completed executions of the try block, with the    *)
(*                      ranking each one displayed                         *)
(*   view               what the page has put on the screen: the two       *)
(*                      top-10 tables or the error message, and the target *)
(*                      year the viewer wanted                             *)
(***************************************************************************)
VARIABLES cache, military_strength, defense_budget, strength_df, future_ranking,
          pc, target_year, weights, raised, runs, view

vars == << cache, military_strength, defense_budget, strength_df, future_ranking,
           pc, target_year, weights, raised, runs, view >>

NoTable == [columns |-> {}, rows |-> <<>>]

(***************************************************************************)
(* create_strength_score                                                   *)
(***************************************************************************)
\* mutant: errors='ignore', a string that does not parse stays as it is
to_numeric_Ignore(cell) == IF cell.k = "numtext" THEN Num(cell.v) ELSE cell

\* pd.to_numeric(..., errors='coerce') on one cell
to_numeric(cell) ==
    CASE cell.k = "num" -> cell
      [] cell.k = "numtext" -> Num(cell.v)
      [] OTHER -> Null

\* mutant: the coerced column is written back squared
CoerceColumns_Squaring(df) ==
    AsSeq([i \in 1..Len(df) |->
        [df[i] EXCEPT !.ind = AsSeq([j \in PowerCols |->
            IF to_numeric(df[i].ind[j]).k = "num"
            THEN Num(to_numeric(df[i].ind[j]).v * to_numeric(df[i].ind[j]).v)
            ELSE Null])]])

\* for col in power_columns: df[col] = pd.to_numeric(df[col], errors='coerce')
CoerceColumns(df) ==
    AsSeq([i \in 1..Len(df) |->
        [df[i] EXCEPT !.ind = AsSeq([j \in PowerCols |-> to_numeric(df[i].ind[j])])]])

CompleteRow(row) == \A j \in PowerCols : ~IsNull(row.ind[j])

\* mutant: the last of the seven columns is left out of the subset
dropna_SixColumns(df) ==
    SelectSeq(df, LAMBDA row : \A j \in 1..(Len(power_columns) - 1) : ~IsNull(row.ind[j]))

\* df.dropna(subset=power_columns)
dropna(df) == SelectSeq(df, CompleteRow)

RECURSIVE ColSum(_, _, _)
ColSum(rows, j, pow) ==
    IF rows = <<>> THEN 0
    ELSE (IF pow = 2 THEN rows[1].ind[j].v * rows[1].ind[j].v ELSE rows[1].ind[j].v)
         + ColSum(Tail(rows), j, pow)

\* N^2 times the population variance of column j
ColVarN2(rows, j) ==
    Len(rows) * ColSum(rows, j, 2) - ColSum(rows, j, 1) * ColSum(rows, j, 1)

\* mutant: the scale is the standard deviation even where it is 0
Standardize_ZeroScale(rows, i, j) ==
    LET a == Len(rows) * rows[i].ind[j].v - ColSum(rows, j, 1)
        r == Isqrt(ColVarN2(rows, j) * SqrtGrid * SqrtGrid)
    IN  IF r = 0 THEN NaN
        ELSE Rat((IF a < 0 THEN -1 ELSE 1) * ((Abs(a) * SqrtGrid * SqrtGrid) \div r), SqrtGrid)

\* StandardScaler: (x - mean) / scale, scale the population standard
\* deviation, replaced by 1 where it is 0 (_handle_zeros_in_scale)
Standardize(rows, i, j) ==
    LET a == Len(rows) * rows[i].ind[j].v - ColSum(rows, j, 1)
        v == ColVarN2(rows, j)
        r == Isqrt(v * SqrtGrid * SqrtGrid)
        q == (Abs(a) * SqrtGrid * SqrtGrid) \div r
    IN  IF v = 0 THEN Zero
        ELSE Rat(IF a < 0 THEN -q ELSE q, SqrtGrid)

\* mutant: the mean over the columns whose scaled value is not 0
RowMean_NonZero(z) == RDiv(RSum(z), <<Len(SelectSeq(z, LAMBDA x : x # Zero)), 1>>)

\* scaled_df.mean(axis=1) over the seven scaled columns
RowMean(z) == RDiv(RSum(z), <<Len(z), 1>>)

\* mutant: country and pwr_index are taken from the rows in reverse order
ScaledRow_Reversed(rows, i) ==
    LET z == AsSeq([j \in PowerCols |-> Standardize(rows, i, j)])
    IN  [country |-> rows[Len(rows) + 1 - i].country,
         z |-> z,
         strength_score |-> RowMean(z),
         pwr_index |-> rows[Len(rows) + 1 - i].pwr_index,
         growth_score |-> NaN,
         growth_score_normalized |-> NaN,
         projection_score |-> NaN]

\* one row of scaled_df: the scaled values of row i of df_clean, their mean,
\* and df_clean['country'].values[i], df_clean['pwr_index'].values[i]
ScaledRow(rows, i) ==
    LET z == AsSeq([j \in PowerCols |-> Standardize(rows, i, j)])
    IN  [country |-> rows[i].country,
         z |-> z,
         strength_score |-> RowMean(z),
         pwr_index |-> rows[i].pwr_index,
         growth_score |-> NaN,
         growth_score_normalized |-> NaN,
         projection_score |-> NaN]

\* Insert row r into a sequence sorted by non-increasing key, behind every
\* row whose key is not smaller; a NaN key goes last (na_position='last').
RECURSIVE InsertDesc(_, _, _)
InsertDesc(sorted, r, col) ==
    IF sorted = <<>> THEN <<r>>
    ELSE IF IsNaN(sorted[1][col]) /\ ~IsNaN(r[col]) THEN <<r>> \o sorted
    ELSE IF RLess(sorted[1][col], r[col]) THEN <<r>> \o sorted
    ELSE <<sorted[1]>> \o InsertDesc(Tail(sorted), r, col)

RECURSIVE SortFrom(_, _, _, _)
SortFrom(rows, i, acc, col) ==
    IF i > Len(rows) THEN acc
    ELSE SortFrom(rows, i + 1, InsertDesc(acc, rows[i], col), col)

\* mutant: the rows without a key are left out
sort_values_DropNa(rows, col) ==
    SelectSeq(SortFrom(rows, 1, <<>>, col), LAMBDA r : ~IsNaN(r[col]))

\* df.sort_values(col, ascending=False); rows with equal keys keep their
\* order (numpy sorts arrays of fewer than 16 elements by insertion)
sort_values(rows, col) == SortFrom(rows, 1, <<>>, col)

ScorerColumns == {"power_columns", "strength_score", "country", "pwr_index"}

\* StandardScaler.fit_transform raises ValueError on an array of 0 samples
ScorerRaises(df) == dropna(CoerceColumns(df)) = <<>>

ScorerResult(df) ==
    LET df_clean == dropna(CoerceColumns(df))
        scaled == AsSeq([i \in 1..Len(df_clean) |-> ScaledRow(df_clean, i)])
    IN  [columns |-> ScorerColumns, rows |-> sort_values(scaled, "strength_score")]

(***************************************************************************)
(* analyze_growth_trajectory                                               *)
(***************************************************************************)
FirstYear == 2000
StopYear == 2021
MinValid == 5

\* country_mapping = dict(zip(country, country_code)): the last row of a
\* country wins; None when the country is no key
MappingRows(ms, country) == {i \in 1..Len(ms) : ms[i].country = country}

country_mapping_has(ms, country) == MappingRows(ms, country) # {}

country_mapping_get(ms, country) ==
    ms[CHOOSE i \in MappingRows(ms, country) : \A k \in MappingRows(ms, country) : k <= i].country_code

\* mutant: a null code selects the rows whose code is null
country_budget_NullMatches(budget_df, code) ==
    SelectSeq(budget_df.rows, LAMBDA r : r.code = code)

\* budget_df[budget_df['Country Code'] == country_code]; NaN equals nothing
country_budget(budget_df, code) ==
    SelectSeq(budget_df.rows, LAMBDA r : ~IsNull(code) /\ r.code = code)

RECURSIVE YearsFrom(_, _)
YearsFrom(y, columns) ==
    IF y >= StopYear THEN <<>>
    ELSE (IF y \in columns THEN <<y>> ELSE <<>>) \o YearsFrom(y + 1, columns)

\* mutant: the year before 2000 is taken as well
YearList_From1999(budget_df) == YearsFrom(FirstYear - 1, budget_df.columns)

\* [str(year) for year in range(2000, 2021) if str(year) in country_budget.columns]
YearList(budget_df) == YearsFrom(FirstYear, budget_df.columns)

\* A column holding a string anywhere has dtype object, and so has every
\* array taken across it: np.isnan then raises TypeError.
ObjectDtype(budget_df, years) ==
    \E p \in 1..Len(years) : \E i \in 1..Len(budget_df.rows) :
        IsString(budget_df.rows[i].val[years[p]])

\* np.array(range(len(values)))[valid_indices]: the positions, counted from
\* 0 over the whole of `years`, of the values that are not NaN
ValidX(values) == {p \in 1..Len(values) : ~IsNull(values[p])}

\* mutant: the positions are counted over the valid values only
XOf_Filtered(values, p) == Cardinality({q \in 1..(p - 1) : ~IsNull(values[q])})

XOf(values, p) == p - 1

\* the sum over the valid positions p..Len(values) of x, y, x*x or x*y
RECURSIVE ValidSum(_, _, _)
ValidSum(values, p, term) ==
    IF p > Len(values) THEN 0
    ELSE LET x == XOf(values, p)
             y == values[p].v
             t == CASE term = "x" -> x
                    [] term = "y" -> y
                    [] term = "xx" -> x * x
                    [] OTHER -> x * y
         IN  (IF IsNull(values[p]) THEN 0 ELSE t) + ValidSum(values, p + 1, term)

\* LinearRegression().fit(X, y).coef_[0]
Slope(values) ==
    LET k == Cardinality(ValidX(values))
        sx == ValidSum(values, 1, "x")
        sy == ValidSum(values, 1, "y")
    IN  Rat(k * ValidSum(values, 1, "xy") - sx * sy, k * ValidSum(values, 1, "xx") - sx * sx)

\* mutant: more than 10 points are needed
EnoughPoints_OverTen(values) == Cardinality(ValidX(values)) > 2 * MinValid

\* mutant: 5 points are enough ("Need at least 5 data points")
EnoughPoints_AtLeastFive(values) == Cardinality(ValidX(values)) >= MinValid

EnoughPoints(values) == Cardinality(ValidX(values)) > MinValid

\* mutant: the last of the rows with the country's code is taken
values_0_Last(cb) == cb[Len(cb)]

\* country_budget[years].values[0]: the first of the rows with the code
values_0(cb) == cb[1]

\* One pass of the loop body for `country`: the growth_score appended and
\* whether the except clause produced it.
GrowthOf(ms, budget_df, country) ==
    LET code == country_mapping_get(ms, country)
        cb == country_budget(budget_df, code)
        years == YearList(budget_df)
        values == AsSeq([p \in 1..Len(years) |-> values_0(cb).val[years[p]]])
    IN  IF ~country_mapping_has(ms, country) THEN [g |-> Zero, caught |-> FALSE]
        ELSE IF cb = <<>> THEN [g |-> Zero, caught |-> FALSE]
        ELSE IF years = <<>> THEN [g |-> Zero, caught |-> FALSE]
        ELSE IF ObjectDtype(budget_df, years) THEN [g |-> Zero, caught |-> TRUE]
        ELSE IF EnoughPoints(values) THEN [g |-> Slope(values), caught |-> FALSE]
        ELSE [g |-> Zero, caught |-> FALSE]

RECURSIVE RMin(_)
RMin(s) ==
    IF s = <<>> THEN NaN
    ELSE IF Len(s) = 1 THEN s[1]
    ELSE LET m == RMin(Tail(s)) IN IF RLess(s[1], m) THEN s[1] ELSE m

RECURSIVE RMax(_)
RMax(s) ==
    IF s = <<>> THEN NaN
    ELSE IF Len(s) = 1 THEN s[1]
    ELSE LET m == RMax(Tail(s)) IN IF RLess(m, s[1]) THEN s[1] ELSE m

\* mutant: the scaling without its max > min guard
Normalized_NoGuard(gs, i) == RDiv(RSub(gs[i], RMin(gs)), RSub(RMax(gs), RMin(gs)))

\* mutant: scores that are not positive are scaled to 0, the others by max
Normalized_ZeroFloor(gs, i) ==
    LET max_growth == RMax(gs)
    IN  IF RLess(Zero, gs[i]) THEN RDiv(gs[i], max_growth) ELSE Zero

\* min-max scaling of the growth_score column, 0 when max is not above min
Normalized(gs, i) ==
    LET min_growth == RMin(gs)
        max_growth == RMax(gs)
    IN  IF RLess(min_growth, max_growth)
        THEN RDiv(RSub(gs[i], min_growth), RSub(max_growth, min_growth))
        ELSE Zero

EstimatorResult(ms, df, budget_df) ==
    LET gs == AsSeq([i \in 1..Len(df.rows) |-> GrowthOf(ms, budget_df, df.rows[i].country).g])
    IN  [columns |-> df.columns \cup {"growth_score", "growth_score_normalized"},
         rows |-> AsSeq([i \in 1..Len(df.rows) |->
                     [df.rows[i] EXCEPT !.growth_score = gs[i],
                                        !.growth_score_normalized = Normalized(gs, i)]])]

(***************************************************************************)
(* predict_future_ranking                                                  *)
(***************************************************************************)
CurrentYear == 2024
LongHorizon == 10
DefaultTargetYear == 2047

\* mutant: the long-term weights from a horizon of 10 years on
Weights_FromTen(ty) ==
    IF ty - CurrentYear >= LongHorizon THEN << Rat(5, 10), Rat(5, 10) >>
    ELSE << Rat(7, 10), Rat(3, 10) >>

\* <<strength_weight, growth_weight>>
Weights(ty) ==
    IF ty - CurrentYear > LongHorizon THEN << Rat(5, 10), Rat(5, 10) >>
    ELSE << Rat(7, 10), Rat(3, 10) >>

\* the published power index is held in tenths
PwrValue(cell) == IF cell.k = "num" THEN Rat(cell.v, 10) ELSE NaN

\* mutant: the power index is added instead of subtracted
ProjectionScore_AddPwr(row, w) ==
    RAdd(RAdd(RMul(w[1], row.strength_score), RMul(w[2], row.growth_score_normalized)),
         RMul(Rat(2, 10), PwrValue(row.pwr_index)))

ProjectionScore(row, w) ==
    RSub(RAdd(RMul(w[1], row.strength_score), RMul(w[2], row.growth_score_normalized)),
         RMul(Rat(2, 10), PwrValue(row.pwr_index)))

\* mutant: a table without rows is refused as well
RankerRaises_OnEmpty(df) ==
    df.rows = <<>> \/ \E i \in 1..Len(df.rows) : IsString(df.rows[i].pwr_index)

\* 0.2 * df['pwr_index'] raises TypeError when the column holds strings
RankerRaises(df) == \E i \in 1..Len(df.rows) : IsString(df.rows[i].pwr_index)

\* df after df['projection_score'] = ...
WithProjection(df, ty) ==
    [columns |-> df.columns \cup {"projection_score"},
     rows |-> AsSeq([i \in 1..Len(df.rows) |->
                 [df.rows[i] EXCEPT !.projection_score = ProjectionScore(df.rows[i], Weights(ty))]])]

RankerResult(df, ty) ==
    [columns |-> WithProjection(df, ty).columns,
     rows |-> sort_values(WithProjection(df, ty).rows, "projection_score")]

(***************************************************************************)
(* The source tables the model starts from.  A scenario fixes the country  *)
(* table (n rows; row i at level lev(i), the rows in D with cell dcol      *)
(* replaced by a cell of kind dkind) and the budget table (its year        *)
(* columns; country i's series 3i + m(i) * (year - 2000) + c * ((year -    *)
(* 2000) % 3), country 1 having values only in k years from 2000 + f on,   *)
(* s apart; a string in country txt's 2001 cell).                          *)
(***************************************************************************)
IndValue(level, j) == IF j % 2 = 1 THEN level ELSE level * level

LevelOf(p, i) == (p.base + (i - 1) * p.step) % (MaxLevel + 1)

DefectCell(kind, n) ==
    CASE kind = "nan" -> Null
      [] kind = "text" -> Text
      [] OTHER -> NumText(n)

CountryRow(p, i) ==
    [country |-> i,
     country_code |-> Num(i),
     ind |-> [j \in PowerCols |->
                IF i \in p.D /\ j = p.dcol
                THEN DefectCell(p.dkind, IndValue(LevelOf(p, i), j))
                ELSE Num(IndValue(LevelOf(p, i), j))],
     pwr_index |-> Num(i)]

CountryTable(p) == [i \in 1..p.n |-> CountryRow(p, i)]

AllYears == (FirstYear - 1)..StopYear

FullSpan == StopYear - FirstYear

HasValue(p, i, y) ==
    \/ y < FirstYear
    \/ y >= StopYear
    \/ i # 1
    \/ /\ y >= FirstYear + p.f
       /\ (y - FirstYear - p.f) % p.s = 0
       /\ (y - FirstYear - p.f) \div p.s < p.k

SeriesValue(p, i, y) ==
    3 * i + (p.m0 + (i - 1) * p.dm) * (y - FirstYear) + p.c * ((y - FirstYear) % 3)

BudgetRow(p, i) ==
    [code |-> Num(i),
     val |-> [y \in AllYears |->
                IF p.txt = i /\ y = FirstYear + 1 THEN Text
                ELSE IF HasValue(p, i, y)
                THEN Num(SeriesValue(p, i, y))
                ELSE Null]]

BudgetColumns(sel) ==
    CASE sel = "all" -> AllYears
      [] sel = "gap" -> AllYears \ {FirstYear + 3}
      [] OTHER -> {FirstYear - 1, StopYear}

BudgetTable(p) ==
    [columns |-> BudgetColumns(p.cols),
     rows |-> [i \in 1..NCountries |-> BudgetRow(p, i)]]

\* scenarios that vary the country table
IndicatorScenarios ==
    [n : 0..NCountries, base : 0..MaxLevel, step : {0, 1},
     D : SUBSET (1..NCountries), dcol : {1, 2, Len(power_columns)},
     dkind : {"nan", "text", "numtext"},
     m0 : {-1}, dm : {1}, f : {0}, s : {1}, k : {FullSpan}, c : {0},
     cols : {"all"}, txt : {0}]

\* scenarios that vary the budget series of country 1
SeriesScenarios ==
    [n : {NCountries}, base : {0}, step : {1}, D : {{}}, dcol : {1}, dkind : {"nan"},
     m0 : (-MaxSlope)..MaxSlope, dm : {0, 1}, f : {0, 1}, s : 1..MaxStride,
     k : 0..MaxValid, c : {0, 1}, cols : {"all"}, txt : {0}]

\* scenarios that vary the columns of the budget table and put a string in it
ColumnScenarios ==
    [n : {NCountries}, base : {0}, step : {1}, D : {{}}, dcol : {1}, dkind : {"nan"},
     m0 : {MaxSlope}, dm : {0, 1}, f : {0}, s : {1},
     k : 0..MaxValid, c : {0}, cols : {"all", "gap", "none"}, txt : 0..NCountries]

(***************************************************************************)
(* Tables with defects outside the indicator columns: country cx has no    *)
(* country code (an empty cell, read as NaN); country px has a pwr_index   *)
(* that is empty (pk = "nan") or text (pk = "text"; pd.read_csv then reads *)
(* the whole column as strings); the budget table has one more row, with   *)
(* no country code; country bx has no budget row (bk = "missing") or a     *)
(* second one before or after its own; cols = "none" leaves the budget     *)
(* table the columns 1999 and 2021 only.                                   *)
(***************************************************************************)
PwrCell(p, i) ==
    CASE p.px = 0 -> Num(i)
      [] p.pk = "nan" -> (IF i = p.px THEN Null ELSE Num(i))
      [] OTHER -> (IF i = p.px THEN Text ELSE NumText(i))

RecordTable(p) ==
    [i \in 1..p.n |->
        [CountryRow(p, i) EXCEPT !.country_code = IF i = p.cx THEN Null ELSE @,
                                !.pwr_index = PwrCell(p, i)]]

\* a second budget row with the code of country i, falling by 4 a year
SecondRow(i) ==
    [code |-> Num(i), val |-> [y \in AllYears |-> Num(7 - 4 * (y - FirstYear))]]

\* the budget rows of country i: none (bk = "missing"), or its own with a
\* second row before or after it, when i is country bx
BudgetRowsFor(p, i) ==
    CASE i # p.bx -> << BudgetRow(p, i) >>
      [] p.bk = "missing" -> <<>>
      [] p.bk = "before" -> << SecondRow(i), BudgetRow(p, i) >>
      [] OTHER -> << BudgetRow(p, i), SecondRow(i) >>

RECURSIVE BudgetRowsFrom(_, _)
BudgetRowsFrom(p, i) ==
    IF i > NCountries THEN <<>>
    ELSE BudgetRowsFor(p, i) \o BudgetRowsFrom(p, i + 1)

RecordBudgets(p) ==
    [columns |-> BudgetColumns(p.cols),
     rows |-> BudgetRowsFrom(p, 1)
                \o << [code |-> Null, val |-> [y \in AllYears |-> Num(2 * (y - FirstYear))]] >>]

RecordScenarios ==
    [n : {NCountries}, base : {0}, step : {1}, D : SUBSET (1..NCountries), dcol : {1},
     dkind : {"nan"}, m0 : {-1, 1}, dm : {1}, f : {0}, s : {1}, k : {FullSpan}, c : {0},
     cols : {"all", "none"}, txt : {0}, cx : 0..NCountries, px : 0..NCountries,
     pk : {"nan", "text"}, bx : 0..NCountries, bk : {"missing", "before", "after"}]

(***************************************************************************)
(* The tables of the end-to-end scenario: country 1 (A) with every         *)
(* indicator at level a, a power index of 0.2 and an expenditure rising by *)
(* d a year in 10 years s apart; country 2 (B) with MaxLevel in its first  *)
(* h indicators and 0 in the others, a power index of 0.3 and a flat       *)
(* expenditure; country 3 (C) without indicator dcol, first or last row.   *)
(***************************************************************************)
EndToEndRow(p, i) ==
    [country |-> i,
     country_code |-> Num(i),
     ind |-> [j \in PowerCols |->
                CASE i = 1 -> Num(p.a)
                  [] i = 2 -> (IF j <= p.h THEN Num(MaxLevel) ELSE Num(0))
                  [] OTHER -> (IF j = p.dcol THEN Null ELSE Num(1))],
     pwr_index |-> Num(IF i = 3 THEN 1 ELSE i + 1)]

EndToEndCountries(p) ==
    IF p.first
    THEN << EndToEndRow(p, 3), EndToEndRow(p, 1), EndToEndRow(p, 2) >>
    ELSE << EndToEndRow(p, 1), EndToEndRow(p, 2), EndToEndRow(p, 3) >>

EndToEndBudgets(p) ==
    [columns |-> AllYears,
     rows |-> [i \in 1..3 |->
        [code |-> Num(i),
         val |-> [y \in AllYears |->
                    CASE i = 1 ->
                           (IF /\ y >= FirstYear
                               /\ y < StopYear
                               /\ (y - FirstYear) % p.s = 0
                               /\ (y - FirstYear) \div p.s < 10
                            THEN Num(5 + p.d * (y - FirstYear))
                            ELSE Null)
                      [] i = 2 -> Num(4)
                      [] OTHER -> Num(3)]]]]

EndToEndScenarios ==
    [a : 0..MaxLevel, h : 0..Len(power_columns), d : 1..MaxSlope, s : 1..MaxStride,
     dcol : {1, Len(power_columns)}, first : BOOLEAN]

(***************************************************************************)
(* A country table with one row more than the page shows: country i at     *)
(* level (base + (i - 1) * step) % (TopN + 1), country drop without its    *)
(* first indicator; the budget table has rows for the first NCountries     *)
(* countries only.                                                         *)
(***************************************************************************)
\* .head(10)
TopN == 10

TopTenRow(p, i) ==
    [country |-> i,
     country_code |-> Num(i),
     ind |-> [j \in PowerCols |->
                IF i = p.drop /\ j = 1
                THEN Null
                ELSE Num(IndValue((p.base + (i - 1) * p.step) % (TopN + 1), j))],
     pwr_index |-> Num(i)]

TopTenCountries(p) == [i \in 1..(TopN + 1) |-> TopTenRow(p, i)]

TopTenScenarios == [base : 0..MaxLevel, step : {1, 3, 5}, drop : 0..NCountries]

(***************************************************************************)
(* ProjectionRecord tables handed to predict_future_ranking directly:      *)
(* fewer than NCountries rows, each with a strength_score and a            *)
(* growth_score_normalized of 0 or 1 and a pwr_index of 0.1 or null.       *)
(***************************************************************************)
ProjectionProfiles ==
    [strength_score : {Zero, One}, growth_score_normalized : {Zero, One},
     pwr_index : {Num(1), Null}]

ProjectionRow(i, q) ==
    [country |-> i,
     z |-> [j \in PowerCols |-> q.strength_score],
     strength_score |-> q.strength_score,
     pwr_index |-> q.pwr_index,
     growth_score |-> q.growth_score_normalized,
     growth_score_normalized |-> q.growth_score_normalized,
     projection_score |-> NaN]

ProjectionTables ==
    UNION {[1..n -> ProjectionProfiles] : n \in 0..(NCountries - 1)}

\* the source files of the runs that follow a direct call
PlainScenario ==
    [n |-> NCountries, base |-> 0, step |-> 1, D |-> {}, dcol |-> 1, dkind |-> "nan",
     m0 |-> 1, dm |-> 1, f |-> 0, s |-> 1, k |-> FullSpan, c |-> 0, cols |-> "all", txt |-> 0]

\* load_data() on a cache hit: st.cache_data hands out a copy of the value
\* it keeps, never the object an earlier run of the script worked on
load_data(cached) == cached

\* the first run of the script: load_data() reads the files of scenario p
Loaded(p) ==
    /\ cache = [military_strength |-> CountryTable(p), defense_budget |-> BudgetTable(p)]
    /\ military_strength = cache.military_strength
    /\ defense_budget = cache.defense_budget

(***************************************************************************)
(* The page: the try block of app.py:1931-2033, and direct calls of the    *)
(* Ranker with another target year.                                        *)
(***************************************************************************)
TargetYears ==
    {CurrentYear - 4, CurrentYear, CurrentYear + LongHorizon, CurrentYear + LongHorizon + 1}

\* the target years a viewer of the page may have in mind
SelectableYears == {CurrentYear + LongHorizon, DefaultTargetYear}

NoView == [selected |-> 0, current_top10 |-> <<>>, future_top10 |-> <<>>, error |-> "none"]

\* df[['country', col]].head(10)
head_Last(rows, col) ==
    AsSeq([r \in 1..(IF Len(rows) < TopN THEN Len(rows) ELSE TopN) |->
              [country |-> rows[r + Len(rows) - (IF Len(rows) < TopN THEN Len(rows) ELSE TopN)].country,
               score |-> rows[r + Len(rows) - (IF Len(rows) < TopN THEN Len(rows) ELSE TopN)][col]]])

head(rows, col) ==
    AsSeq([r \in 1..(IF Len(rows) < TopN THEN Len(rows) ELSE TopN) |->
              [country |-> rows[r].country, score |-> rows[r][col]]])

\* mutant: except ValueError
Caught_ValueErrorOnly(exc) == exc = "ValueError"

\* except Exception as e: the classes the three steps raise derive from it
Caught(exc) == exc \in {"ValueError", "TypeError", "KeyError"}

\* where the script stands once exc has left a step of the try block
AfterRaise(exc) == IF Caught(exc) THEN "error" ELSE "uncaught"

\* st.error(...) in the except clause
ErrorView(selected, exc) ==
    [NoView EXCEPT !.selected = selected, !.error = IF Caught(exc) THEN exc ELSE "none"]

\* mutant: the page passes the viewer's target year on
PageTargetYear_Selected(selected) == selected

\* predict_future_ranking(projection_df): the page passes no target year,
\* the parameter takes its default
PageTargetYear(selected) == DefaultTargetYear

Started ==
    /\ view = NoView
    /\ strength_df = NoTable
    /\ future_ranking = NoTable
    /\ pc = "start"
    /\ target_year = 0
    /\ weights = << Zero, Zero >>
    /\ raised = "none"
    /\ runs = <<>>

InitCountries ==
    /\ \E p \in IndicatorScenarios : p.D \subseteq 1..p.n /\ Loaded(p)
    /\ Started

InitBudgets ==
    /\ \/ \E p \in SeriesScenarios : Loaded(p)
       \/ \E p \in ColumnScenarios : Loaded(p)
    /\ Started

Init == InitCountries \/ InitBudgets

\* predict_future_ranking is about to be called with a table of its own
InitRanker ==
    /\ Loaded(PlainScenario)
    /\ \E t \in ProjectionTables :
          strength_df = [columns |-> ScorerColumns \cup {"growth_score", "growth_score_normalized"},
                         rows |-> [i \in 1..Len(t) |-> ProjectionRow(i, t[i])]]
    /\ future_ranking = NoTable
    /\ pc = "grown"
    /\ target_year = 0
    /\ weights = << Zero, Zero >>
    /\ raised = "none"
    /\ runs = <<>>
    /\ view = NoView

\* the first run of the script on files with defects outside the indicators
InitRecords ==
    /\ \E p \in RecordScenarios :
          /\ p.D \subseteq {p.px}
          /\ (p.bx # 0 \/ p.cols # "all") => (p.px = 0 /\ p.cx = 0)
          /\ p.bx # 0 => p.cols = "all"
          /\ cache = [military_strength |-> RecordTable(p), defense_budget |-> RecordBudgets(p)]
          /\ military_strength = cache.military_strength
          /\ defense_budget = cache.defense_budget
    /\ Started

\* the first run of the script on the files of the end-to-end scenario
InitEndToEnd ==
    /\ \E p \in EndToEndScenarios :
          /\ cache = [military_strength |-> EndToEndCountries(p),
                      defense_budget |-> EndToEndBudgets(p)]
          /\ military_strength = cache.military_strength
          /\ defense_budget = cache.defense_budget
    /\ Started

\* the first run of the script on a country table of more than ten rows
InitTopTen ==
    /\ \E p \in TopTenScenarios :
          /\ cache = [military_strength |-> TopTenCountries(p),
                      defense_budget |-> BudgetTable(PlainScenario)]
          /\ military_strength = cache.military_strength
          /\ defense_budget = cache.defense_budget
    /\ Started

\* Step 1: strength_df = create_strength_score(military_strength)
CreateStrengthScore ==
    /\ pc = "start"
    /\ military_strength' = CoerceColumns(military_strength)
    /\ IF ScorerRaises(military_strength)
       THEN /\ pc' = AfterRaise("ValueError")
            /\ raised' = "ValueError"
            /\ view' = ErrorView(0, "ValueError")
            /\ UNCHANGED strength_df
       ELSE /\ pc' = "scored"
            /\ strength_df' = ScorerResult(military_strength)
            /\ UNCHANGED << raised, view >>
    /\ UNCHANGED << cache, defense_budget, future_ranking, target_year, weights, runs >>

\* Step 2: projection_df = analyze_growth_trajectory(strength_df, defense_budget);
\* the columns are added to strength_df itself, which is what is returned
AnalyzeGrowthTrajectory ==
    /\ pc = "scored"
    /\ strength_df' = EstimatorResult(military_strength, strength_df, defense_budget)
    /\ pc' = "grown"
    /\ UNCHANGED << cache, military_strength, defense_budget, future_ranking, target_year,
                    weights, raised, runs, view >>

\* predict_future_ranking(projection_df, ty)
Predict(ty) ==
    /\ pc = "grown"
    /\ target_year' = ty
    /\ IF RankerRaises(strength_df)
       THEN /\ pc' = AfterRaise("TypeError")
            /\ raised' = "TypeError"
            /\ UNCHANGED << strength_df, future_ranking, weights >>
       ELSE /\ pc' = "ranked"
            /\ weights' = Weights(ty)
            /\ strength_df' = WithProjection(strength_df, ty)
            /\ future_ranking' = RankerResult(strength_df, ty)
            /\ UNCHANGED raised
    /\ UNCHANGED << cache, military_strength, defense_budget, runs >>

\* Step 3: future_ranking = predict_future_ranking(projection_df), and the
\* rest of the try block: the two tables st.table puts on the screen
PagePredict ==
    \E selected \in SelectableYears :
        /\ Predict(PageTargetYear(selected))
        /\ view' = IF pc' = "ranked"
                   THEN [selected |-> selected,
                         current_top10 |-> head(strength_df'.rows, "strength_score"),
                         future_top10 |-> head(future_ranking'.rows, "projection_score"),
                         error |-> "none"]
                   ELSE ErrorView(selected, raised')

\* the Ranker called with an explicit target year
DirectPredict ==
    /\ \E ty \in TargetYears : Predict(ty)
    /\ UNCHANGED view

\* the try block has ended and is entered once more
Restart ==
    /\ pc \in {"ranked", "error"}
    /\ pc = "ranked" => target_year = DefaultTargetYear
    /\ Len(runs) < MaxRuns - 1
    /\ runs' = Append(runs, [outcome |-> pc, target_year |-> target_year,
                             ranking |-> future_ranking.rows])
    /\ pc' = "start"
    /\ strength_df' = NoTable
    /\ future_ranking' = NoTable
    /\ target_year' = 0
    /\ weights' = << Zero, Zero >>
    /\ raised' = "none"
    /\ view' = NoView
    /\ UNCHANGED cache

\* Streamlit runs the script again: load_data() returns fresh copies of the
\* cached tables
Rerun ==
    /\ Restart
    /\ military_strength' = load_data(cache).military_strength
    /\ defense_budget' = load_data(cache).defense_budget

\* The three steps are run again on the tables the run before has worked on.
RepeatPipeline ==
    /\ Restart
    /\ UNCHANGED << military_strength, defense_budget >>

Next ==
    \/ CreateStrengthScore
    \/ AnalyzeGrowthTrajectory
    \/ PagePredict
    \/ DirectPredict
    \/ Rerun
    \/ RepeatPipeline

Spec == Init /\ [][Next]_vars

\* the page over the scenarios that vary the country table
SpecCountries == InitCountries /\ [][Next]_vars

\* the page over the scenarios that vary the budget table
SpecBudgets == InitBudgets /\ [][Next]_vars

\* direct calls of the Ranker, and the page after them
SpecRanker == InitRanker /\ [][Next]_vars

\* the page over the scenarios with defects outside the indicators
SpecRecords == InitRecords /\ [][Next]_vars

\* the page over the end-to-end scenario
SpecEndToEnd == InitEndToEnd /\ [][Next]_vars

\* the page over a country table of more than ten rows
SpecTopTen == InitTopTen /\ [][Next]_vars

(***************************************************************************)
(* Properties.                                                             *)
(***************************************************************************)
OutRows == 1..Len(strength_df.rows)
SrcRows == 1..Len(military_strength)

\* the source row of a country, and the cells of its first budget row
SrcRowOf(c) == CHOOSE i \in SrcRows : military_strength[i].country = c
BudgetRowsOf(c) ==
    {i \in 1..Len(defense_budget.rows) :
        defense_budget.rows[i].code = military_strength[SrcRowOf(c)].country_code}
HasBudget(c) == BudgetRowsOf(c) # {}
BudgetValOf(c) ==
    defense_budget.rows[CHOOSE i \in BudgetRowsOf(c) : \A k \in BudgetRowsOf(c) : i <= k].val

\* the year columns 2000..2020 the budget table has
RangeYears == {y \in 2000..2020 : y \in defense_budget.columns}
\* the years of a budget row `val` that hold a number
NumYears(val) == {y \in RangeYears : val[y].k = "num"}
\* some cell of the year columns in range is a string
StringInRange ==
    \E y \in RangeYears : \E i \in 1..Len(defense_budget.rows) :
        defense_budget.rows[i].val[y].k \in {"text", "numtext"}

RECURSIVE PairSum(_, _)
PairSum(pts, term) ==
    IF pts = {} THEN 0
    ELSE LET q == CHOOSE q \in pts : TRUE
             t == CASE term = "x" -> q[1]
                    [] term = "y" -> q[2]
                    [] term = "xx" -> q[1] * q[1]
                    [] OTHER -> q[1] * q[2]
         IN  t + PairSum(pts \ {q}, term)

\* least-squares slope of y against x over a set of points <<x, y>>
OlsSlope(pts) ==
    Rat(Cardinality(pts) * PairSum(pts, "xy") - PairSum(pts, "x") * PairSum(pts, "y"),
        Cardinality(pts) * PairSum(pts, "xx") - PairSum(pts, "x") * PairSum(pts, "x"))

\* position of year y among a set of years, from 0
PosIn(y, years) == Cardinality({z \in years : z < y})

\* the points of a budget row, each valid year at its position in `basis`
Points(val, basis) == {<<PosIn(y, basis), val[y].v>> : y \in NumYears(val)}

\* C1: the Scorer's output holds exactly the countries whose seven
\* indicators are all numbers after coercion, each of them once.
C1_CompleteCasesOnly ==
    pc # "start" =>
        /\ \A i \in SrcRows :
              Cardinality({r \in OutRows :
                              strength_df.rows[r].country = military_strength[i].country})
                  = IF \A j \in 1..7 : military_strength[i].ind[j].k = "num" THEN 1 ELSE 0
        /\ \A r \in OutRows :
              \E i \in SrcRows : military_strength[i].country = strength_df.rows[r].country

C1_Witness ==
    /\ pc = "scored"
    /\ \E i \in SrcRows : \E j \in 1..7 : military_strength[i].ind[j].k = "nan"
    /\ \E r \in OutRows :
          \E j \in 1..7 : military_strength[SrcRowOf(strength_df.rows[r].country)].ind[j]
                            = [k |-> "num", v |-> 0]
    /\ Len(strength_df.rows) < Len(military_strength)

\* C2 as stated: the slope is taken against the position of each valid
\* year among the valid years.
C2_FilteredPosition ==
    pc = "grown" =>
        \A r \in OutRows :
            LET c == strength_df.rows[r].country IN
            (HasBudget(c) /\ ~StringInRange /\ Cardinality(NumYears(BudgetValOf(c))) >= 6)
                => strength_df.rows[r].growth_score
                      = OlsSlope(Points(BudgetValOf(c), NumYears(BudgetValOf(c))))

\* C2 amended: the slope is taken against the position of each valid year
\* among all the year columns 2000..2020 of the budget table, null or not.
C2_ColumnPosition ==
    pc = "grown" =>
        \A r \in OutRows :
            LET c == strength_df.rows[r].country IN
            (HasBudget(c) /\ ~StringInRange /\ Cardinality(NumYears(BudgetValOf(c))) >= 6)
                => strength_df.rows[r].growth_score = OlsSlope(Points(BudgetValOf(c), RangeYears))

C2_Witness ==
    /\ pc = "grown"
    /\ ~StringInRange
    /\ \E r \in OutRows :
          LET val == BudgetValOf(strength_df.rows[r].country) IN
          /\ Cardinality(NumYears(val)) >= 6
          /\ NumYears(val) # RangeYears
          /\ strength_df.rows[r].growth_score # Zero
          /\ strength_df.rows[r].growth_score # OlsSlope(Points(val, NumYears(val)))

LinearBy(val, m) ==
    \A y1, y2 \in NumYears(val) : val[y1].v - val[y2].v = m * (y1 - y2)

\* C4: a country whose expenditure is linear with slope m a year over at
\* least 6 non-null years 2000..2020 gets growth_score m.
C4_LinearSeriesSlope ==
    pc = "grown" =>
        \A r \in OutRows :
            LET c == strength_df.rows[r].country IN
            HasBudget(c) =>
                \A m \in (-(MaxSlope + NCountries))..(MaxSlope + NCountries) :
                    (Cardinality(NumYears(BudgetValOf(c))) >= 6 /\ LinearBy(BudgetValOf(c), m))
                        => strength_df.rows[r].growth_score = <<m, 1>>

\* C5: the weights are (0.5, 0.5) exactly when the target year is more than
\* 10 years after 2024, and (0.7, 0.3) otherwise.
C5_WeightRegime ==
    pc = "ranked" =>
        /\ weights \in { << <<1, 2>>, <<1, 2>> >>, << <<7, 10>>, <<3, 10>> >> }
        /\ weights = << <<1, 2>>, <<1, 2>> >> <=> target_year - 2024 > 10
        /\ target_year = 2034 => weights = << <<7, 10>>, <<3, 10>> >>
        /\ target_year = 2035 => weights = << <<1, 2>>, <<1, 2>> >>
        /\ target_year <= 2024 => weights = << <<7, 10>>, <<3, 10>> >>

C5_Witness ==
    /\ pc = "ranked"
    /\ target_year = 2034
    /\ weights = << <<7, 10>>, <<3, 10>> >>

\* C6: every row of the Ranker's output has projection_score =
\* strength_weight * strength_score + growth_weight * growth_score_normalized
\* - 0.2 * pwr_index, the weights being those of the target year's regime.
C6_ProjectionFormula ==
    pc = "ranked" =>
        \A r \in 1..Len(future_ranking.rows) :
            LET row == future_ranking.rows[r]
                sw == IF target_year - 2024 > 10 THEN <<1, 2>> ELSE <<7, 10>>
                gw == IF target_year - 2024 > 10 THEN <<1, 2>> ELSE <<3, 10>>
            IN  row.projection_score
                    = RSub(RAdd(RMul(sw, row.strength_score),
                                RMul(gw, row.growth_score_normalized)),
                           RMul(<<1, 5>>, IF row.pwr_index.k = "num"
                                          THEN Rat(row.pwr_index.v, 10) ELSE NaN))

C6_Witness ==
    /\ pc = "ranked"
    /\ target_year = 2047
    /\ \E r \in 1..Len(future_ranking.rows) :
          /\ future_ranking.rows[r].strength_score # Zero
          /\ future_ranking.rows[r].growth_score_normalized \notin {Zero, One}
          /\ future_ranking.rows[r].projection_score # NaN

GrowthScores == {strength_df.rows[r].growth_score : r \in OutRows}
MinGrowth == CHOOSE g \in GrowthScores : \A h \in GrowthScores : RLeq(g, h)
MaxGrowth == CHOOSE g \in GrowthScores : \A h \in GrowthScores : RLeq(h, g)

\* C7: growth_score_normalized is (g - min) / (max - min) over the raw
\* growth scores of the table when they differ and 0 for every row when
\* they are all equal; it lies in [0, 1], is 0 at the minimum and 1 at the
\* maximum, and is never undefined.
C7_MinMaxNormalized ==
    pc = "grown" =>
        \A r \in OutRows :
            LET g == strength_df.rows[r].growth_score
                gn == strength_df.rows[r].growth_score_normalized
            IN  /\ ~IsNaN(gn)
                /\ RLeq(Zero, gn) /\ RLeq(gn, One)
                /\ Cardinality(GrowthScores) = 1 => gn = Zero
                /\ Cardinality(GrowthScores) > 1 =>
                      /\ gn = RDiv(RSub(g, MinGrowth), RSub(MaxGrowth, MinGrowth))
                      /\ g = MinGrowth => gn = Zero
                      /\ g = MaxGrowth => gn = One

C7_Witness ==
    /\ pc = "grown"
    /\ Cardinality(GrowthScores) > 1
    /\ \E r \in OutRows :
          /\ RLess(strength_df.rows[r].growth_score, Zero)
          /\ RLess(Zero, strength_df.rows[r].growth_score_normalized)
          /\ RLess(strength_df.rows[r].growth_score_normalized, One)

\* C8: when no country survives the complete-case filter the Scorer
\* returns an empty table and raises nothing.
C8_EmptyTableNotRaised ==
    (pc # "start" /\ \A i \in SrcRows : \E j \in 1..7 : military_strength[i].ind[j].k # "num")
        => (pc # "error" /\ raised = "none" /\ strength_df.rows = <<>>)

\* the budget table without the rows of one country code
BudgetWithout(code) ==
    [defense_budget EXCEPT !.rows = SelectSeq(defense_budget.rows, LAMBDA b : b.code # code)]

\* country row x has a string in one of its year cells 2000..2020
StringInRow(x) ==
    \E i \in 1..Len(defense_budget.rows) :
        /\ defense_budget.rows[i].code = military_strength[x].country_code
        /\ \E y \in RangeYears : defense_budget.rows[i].val[y].k \in {"text", "numtext"}

\* C9: a country whose processing raises gets growth_score 0, and every
\* other country gets the growth_score it would get without that country.
C9_OthersUnaffected ==
    pc = "grown" =>
        \A x \in SrcRows :
            StringInRow(x) =>
                \A r \in OutRows :
                    IF strength_df.rows[r].country = military_strength[x].country
                    THEN strength_df.rows[r].growth_score = Zero
                    ELSE strength_df.rows[r].growth_score
                            = GrowthOf(military_strength,
                                       BudgetWithout(military_strength[x].country_code),
                                       strength_df.rows[r].country).g

\* C10: a second run of the page on the same tables ends as the run before
\* it did, with the same ranking, row for row.
C10_SecondRunSame ==
    (pc \in {"ranked", "error"} /\ runs # <<>> /\ runs[Len(runs)].target_year = target_year)
        => /\ runs[Len(runs)].outcome = pc
           /\ runs[Len(runs)].ranking = future_ranking.rows

C10_Witness ==
    /\ pc = "ranked"
    /\ runs # <<>>
    /\ runs[Len(runs)].target_year = target_year
    /\ Len(future_ranking.rows) >= 2
    /\ Len(future_ranking.rows) < Len(military_strength)
    /\ future_ranking.rows[1].country # 1

\* the country table as load_data() read it, and its rows
Source == cache.military_strength
CachedRows == 1..Len(Source)

\* C11: the Scorer leaves every cell of the country table it is given as it
\* was: once create_strength_score has run, the table of this run still
\* equals the table load_data() returned.
C11_SourceUnchanged ==
    pc \in {"scored", "grown", "ranked", "error"} => military_strength = Source

\* C12: the Estimator and the Ranker leave the table they receive as it
\* was: while analyze_growth_trajectory or predict_future_ranking runs, the
\* table the Scorer returned keeps its columns and its values.
C12_InputTablesUnchanged ==
    [][(pc \in {"scored", "grown"}) => (strength_df' = strength_df)]_vars

\* the row of a country in the table analyze_growth_trajectory returned, and
\* its place in the ranking
HasRow(c) == \E r \in OutRows : strength_df.rows[r].country = c
RowOf(c) == strength_df.rows[CHOOSE r \in OutRows : strength_df.rows[r].country = c]
PlaceOf(c) ==
    CHOOSE r \in 1..Len(future_ranking.rows) : future_ranking.rows[r].country = c

\* The tables are those of the end-to-end scenario: A is country 1, B is
\* country 2 and C is country 3.
EndToEndTables ==
    /\ Len(Source) = 3
    /\ \A c \in 1..3 : \E i \in CachedRows : Source[i].country = c
    /\ \A i \in CachedRows :
          /\ Source[i].country = 1 => Source[i].pwr_index = [k |-> "num", v |-> 2]
          /\ Source[i].country = 2 => Source[i].pwr_index = [k |-> "num", v |-> 3]
          /\ Source[i].country \in {1, 2} => \A j \in 1..7 : Source[i].ind[j].k = "num"
          /\ Source[i].country = 3 => \E j \in 1..7 : Source[i].ind[j].k = "nan"
    /\ ~StringInRange
    /\ HasBudget(1) /\ HasBudget(2)
    /\ Cardinality(NumYears(BudgetValOf(1))) = 10
    /\ \E m \in 1..(MaxSlope + 1) : LinearBy(BudgetValOf(1), m)
    /\ NumYears(BudgetValOf(2)) = RangeYears
    /\ LinearBy(BudgetValOf(2), 0)

\* what the scenario expects of the Scorer and of the Estimator
EndToEndScores ==
    /\ ~HasRow(3)
    /\ HasRow(1) /\ HasRow(2)
    /\ RLess(Zero, RowOf(1).growth_score)
    /\ RowOf(2).growth_score = Zero

\* C13 as stated: in the end-to-end scenario C is excluded, A's
\* growth_score is positive, B's is 0, and the ranking for 2047 has A above
\* B whatever the indicators of A and B are.
C13_AlwaysAboveB ==
    (pc = "ranked" /\ target_year = 2047 /\ EndToEndTables)
        => (EndToEndScores /\ PlaceOf(1) < PlaceOf(2))

\* C13 amended: C is excluded, A's growth_score is positive and B's is 0;
\* the ranking for 2047 has A above B exactly when A's strength_score is
\* less than 1.04 below B's.
C13_AboveBUnlessWeaker ==
    (pc = "ranked" /\ target_year = 2047 /\ EndToEndTables)
        => /\ EndToEndScores
           /\ PlaceOf(1) < PlaceOf(2)
                 <=> RLess(<<-26, 25>>, RSub(RowOf(1).strength_score, RowOf(2).strength_score))

C13_Witness ==
    /\ pc = "ranked"
    /\ target_year = 2047
    /\ EndToEndTables
    /\ RLess(RowOf(1).strength_score, RowOf(2).strength_score)
    /\ PlaceOf(1) < PlaceOf(2)
    /\ Cardinality(NumYears(BudgetValOf(1)) \cup {2000 + 2 * t : t \in 0..9}) = 10

\* a column of the surviving rows holds one value only
ConstantColumn(j) ==
    \A r1, r2 \in OutRows :
        military_strength[SrcRowOf(strength_df.rows[r1].country)].ind[j]
            = military_strength[SrcRowOf(strength_df.rows[r2].country)].ind[j]

\* C14: a column in which all surviving countries have the same value is
\* standardized to 0 in every row, and every row's strength_score is
\* defined all the same.
C14_ZeroDeviationColumn ==
    pc = "scored" =>
        \A j \in 1..7 :
            ConstantColumn(j) =>
                \A r \in OutRows :
                    /\ strength_df.rows[r].z[j] = Zero
                    /\ strength_df.rows[r].strength_score[2] # 0

C14_Witness ==
    /\ pc = "scored"
    /\ Len(strength_df.rows) >= 2
    /\ \E j \in 1..7 : ConstantColumn(j)
    /\ \E j \in 1..7 : ~ConstantColumn(j)
    /\ \E r \in OutRows : strength_df.rows[r].strength_score \notin {Zero, One, <<-1, 1>>}

\* C15: every row the Scorer returns has a strength_score that is not
\* null; when every country of the input has its seven indicators, the
\* output has one row for each of them.
C15_StrengthNeverNull ==
    pc = "scored" =>
        /\ \A r \in OutRows : strength_df.rows[r].strength_score[2] # 0
        /\ (\A i \in CachedRows : \A j \in 1..7 : Source[i].ind[j].k \in {"num", "numtext"})
              => /\ Len(strength_df.rows) = Len(Source)
                 /\ \A i \in CachedRows :
                       \E r \in OutRows : strength_df.rows[r].country = Source[i].country

C15_Witness ==
    /\ pc = "scored"
    /\ Len(Source) >= 2
    /\ \A i \in CachedRows : \A j \in 1..7 : Source[i].ind[j].k \in {"num", "numtext"}
    /\ \E i \in CachedRows : \E j \in 1..7 : Source[i].ind[j].k = "numtext"
    /\ \E r \in OutRows : strength_df.rows[r].strength_score # Zero

\* C19: coercion of the seven indicator columns raises nothing: a cell that
\* does not parse (empty, text, "1,234") becomes null and a cell that parses
\* becomes its number; a country with a cell coerced to null is not in the
\* Scorer's output.
C19_CoercionNeverRaises ==
    pc \in {"scored", "grown", "ranked", "error"} =>
        /\ \A i \in CachedRows : \A j \in 1..7 :
              military_strength[i].ind[j]
                  = IF Source[i].ind[j].k \in {"num", "numtext"}
                    THEN [k |-> "num", v |-> Source[i].ind[j].v]
                    ELSE [k |-> "nan", v |-> 0]
        /\ \A i \in CachedRows :
              (\E j \in 1..7 : Source[i].ind[j].k \in {"nan", "text"})
                  => \A r \in OutRows : strength_df.rows[r].country # Source[i].country
        /\ raised = "ValueError"
              => \A i \in CachedRows : \E j \in 1..7 : Source[i].ind[j].k \in {"nan", "text"}

C19_Witness ==
    /\ pc = "scored"
    /\ \E i \in CachedRows : \E j \in 1..7 :
          Source[i].ind[j].k = "text" /\ military_strength[i].ind[j].k = "nan"
    /\ strength_df.rows # <<>>

\* the country has no code in the lookup
NoCode(c) == \A i \in CachedRows : Source[i].country = c => Source[i].country_code.k = "nan"

\* C16: a surviving country whose name has no country code in the lookup
\* gets growth_score 0, and the Estimator raises nothing.
C16_NoCodeIsZero ==
    /\ pc \in {"grown", "ranked"} =>
          \A r \in OutRows :
              NoCode(strength_df.rows[r].country) => strength_df.rows[r].growth_score = Zero
    /\ (pc = "error" /\ strength_df.rows # <<>>) =>
          /\ raised = "TypeError"
          /\ "growth_score_normalized" \in strength_df.columns

C16_Witness ==
    /\ pc = "grown"
    /\ \E i \in 1..Len(defense_budget.rows) :
          /\ defense_budget.rows[i].code.k = "nan"
          /\ defense_budget.rows[i].val[2001] # defense_budget.rows[i].val[2002]
    /\ \E r \in OutRows :
          /\ NoCode(strength_df.rows[r].country)
          /\ strength_df.rows[r].growth_score = Zero
    /\ \E r \in OutRows : RLess(strength_df.rows[r].growth_score, Zero)

\* C17: the rows of the Ranker's output are in non-increasing order of
\* projection_score, so the first row has the maximum.
C17_NonIncreasing ==
    pc = "ranked" =>
        /\ \A r \in 1..(Len(future_ranking.rows) - 1) :
              RLeq(future_ranking.rows[r + 1].projection_score,
                   future_ranking.rows[r].projection_score)
        /\ \A r \in 1..Len(future_ranking.rows) :
              RLeq(future_ranking.rows[r].projection_score,
                   future_ranking.rows[1].projection_score)

\* C18: called with a table without rows, the Ranker returns a table
\* without rows and raises nothing, whatever the target year.
C18_EmptyInEmptyOut ==
    (pc \in {"ranked", "error"} /\ strength_df.columns # {} /\ strength_df.rows = <<>>)
        => /\ pc = "ranked"
           /\ raised = "none"
           /\ future_ranking.rows = <<>>
           /\ "projection_score" \in future_ranking.columns

C18_Witness ==
    /\ pc = "ranked"
    /\ target_year = 2034
    /\ strength_df.columns # {}
    /\ strength_df.rows = <<>>
    /\ future_ranking.rows = <<>>

\* the one country with a malformed pwr_index
BadPwr(i) == Source[i].pwr_index.k \in {"nan", "text"}

\* C20: when one country's pwr_index is malformed (null or not a number)
\* and the rest of the tables is well-formed, the page still ends with a
\* ranking that holds every other country with its scores.
C20_OthersStillRanked ==
    (/\ pc \in {"ranked", "error"}
     /\ Cardinality({i \in CachedRows : BadPwr(i)}) = 1
     /\ ~StringInRange)
        => /\ pc = "ranked"
           /\ \A i \in CachedRows :
                 (~BadPwr(i) /\ \A j \in 1..7 : Source[i].ind[j].k \in {"num", "numtext"})
                     => \E r \in 1..Len(future_ranking.rows) :
                           /\ future_ranking.rows[r].country = Source[i].country
                           /\ future_ranking.rows[r].strength_score[2] # 0
                           /\ future_ranking.rows[r].growth_score_normalized[2] # 0
                           /\ future_ranking.rows[r].projection_score[2] # 0

\* C21: an exception that leaves the Scorer, the Estimator or the Ranker
\* on the page is caught by the except clause of the try block: the run
\* ends with the error message on the screen and nothing propagates.
C21_CaughtByCaller ==
    /\ pc # "uncaught"
    /\ raised # "none" =>
          /\ pc = "error"
          /\ (raised = "ValueError" \/ target_year = 2047) => view.error = raised
    /\ (pc \notin {"start", "scored", "grown"}
        /\ \E r \in OutRows : strength_df.rows[r].pwr_index.k \in {"text", "numtext"})
          => (pc = "error" /\ raised = "TypeError")
    /\ pc = "ranked" => (raised = "none" /\ view.error = "none")

C21_Witness ==
    /\ pc = "error"
    /\ raised = "TypeError"
    /\ target_year = 2047
    /\ view.error = "TypeError"
    /\ view.future_top10 = <<>>

\* C22: every row the page hands to the Ranker has a strength_score, a
\* growth_score_normalized and a pwr_index that are not null, so every row
\* of the ranking has a projection_score that is not null.
C22_RankerInputsPresent ==
    /\ pc = "grown" =>
          \A r \in OutRows :
              /\ strength_df.rows[r].strength_score[2] # 0
              /\ strength_df.rows[r].growth_score_normalized[2] # 0
              /\ strength_df.rows[r].pwr_index.k # "nan"
    /\ (pc = "ranked" /\ view.selected # 0) =>
          \A r \in 1..Len(future_ranking.rows) :
              future_ranking.rows[r].projection_score[2] # 0

\* C24 as stated: the ranking on the screen is computed with the target
\* year the viewer selected, with the weights (0.7, 0.3) when that year is
\* 2034 or earlier.
C24_SelectedYearUsed ==
    (pc = "ranked" /\ view.selected # 0) =>
        /\ target_year = view.selected
        /\ view.selected <= 2034 => weights = << <<7, 10>>, <<3, 10>> >>

\* C24 amended: the ranking on the screen is computed with target year
\* 2047 and the weights (0.5, 0.5) whatever the viewer wanted; a ranking
\* with the weights (0.7, 0.3) comes from a direct call of the Ranker only.
C24_AlwaysDefaultYear ==
    /\ (pc = "ranked" /\ view.selected # 0) =>
          /\ target_year = 2047
          /\ weights = << <<1, 2>>, <<1, 2>> >>
          /\ \A r \in 1..Len(view.future_top10) :
                /\ view.future_top10[r].country = future_ranking.rows[r].country
                /\ view.future_top10[r].score = future_ranking.rows[r].projection_score
    /\ (pc = "ranked" /\ weights = << <<7, 10>>, <<3, 10>> >>) => view = NoView

C24_Witness ==
    /\ pc = "ranked"
    /\ view.selected = 2034
    /\ target_year = 2047
    /\ weights = << <<1, 2>>, <<1, 2>> >>
    /\ Len(view.future_top10) >= 2

\* C25: the Scorer's table is in non-increasing order of strength_score
\* and is still so after the Estimator, so the first ten rows -- the
\* "current top 10" of the page -- are the ten countries with the highest
\* strength_score.
C25_TopTenHighest ==
    /\ pc \in {"scored", "grown"} =>
          \A r \in OutRows :
              r < Len(strength_df.rows) =>
                  RLeq(strength_df.rows[r + 1].strength_score,
                       strength_df.rows[r].strength_score)
    /\ (pc = "ranked" /\ view.selected # 0) =>
          /\ Len(view.current_top10) =
                 (IF Len(strength_df.rows) < 10 THEN Len(strength_df.rows) ELSE 10)
          /\ \A r, q \in 1..Len(view.current_top10) :
                 view.current_top10[r].country = view.current_top10[q].country => r = q
          /\ \A r \in 1..Len(view.current_top10) :
                 /\ HasRow(view.current_top10[r].country)
                 /\ view.current_top10[r].score
                       = RowOf(view.current_top10[r].country).strength_score
                 /\ \A q \in OutRows :
                       (\A t \in 1..Len(view.current_top10) :
                           view.current_top10[t].country # strength_df.rows[q].country)
                         => RLeq(strength_df.rows[q].strength_score,
                                 view.current_top10[r].score)

C25_Witness ==
    /\ pc = "ranked"
    /\ view.selected # 0
    /\ Len(strength_df.rows) = 11
    /\ Len(view.current_top10) = 10
    /\ \E q \in OutRows :
          /\ \A t \in 1..10 : view.current_top10[t].country # strength_df.rows[q].country
          /\ RLess(strength_df.rows[q].strength_score, view.current_top10[10].score)
    /\ \E r \in 1..9 : view.current_top10[r].country > view.current_top10[r + 1].country

\* the source rows whose seven indicators are numbers after the coercion
CompleteSrc == {i \in SrcRows : \A j \in 1..7 : military_strength[i].ind[j].k = "num"}

\* N times the distance of source row i from the mean of indicator j over
\* the complete rows
RECURSIVE SrcSum(_, _)
SrcSum(S, j) ==
    IF S = {} THEN 0
    ELSE LET i == CHOOSE i \in S : TRUE
         IN  military_strength[i].ind[j].v + SrcSum(S \ {i}, j)

AboveMean(i, j) ==
    Cardinality(CompleteSrc) * military_strength[i].ind[j].v - SrcSum(CompleteSrc, j)

Sign(n) == IF n > 0 THEN 1 ELSE IF n < 0 THEN -1 ELSE 0

\* C26: every row of the Scorer's table has the country and the pwr_index
\* of the source record its seven scaled values were computed from, and
\* every row of the Estimator's table has the growth_score of its own
\* country's budget series, whatever rows were dropped and however the
\* rows were sorted.
C26_RowIntegrity ==
    pc \in {"scored", "grown", "ranked"} =>
        /\ \A c \in {military_strength[i].country : i \in CompleteSrc} : HasRow(c)
        /\ \A r \in OutRows :
              LET row == strength_df.rows[r]
              IN  /\ \E i \in CompleteSrc : military_strength[i].country = row.country
                  /\ row.pwr_index = military_strength[SrcRowOf(row.country)].pwr_index
                  /\ \A j \in 1..7 :
                        Sign(row.z[j][1]) = Sign(AboveMean(SrcRowOf(row.country), j))
                  /\ (pc # "scored" /\ ~StringInRange /\ HasBudget(row.country)
                       /\ Cardinality(NumYears(BudgetValOf(row.country))) > 5)
                        => row.growth_score
                             = OlsSlope(Points(BudgetValOf(row.country), RangeYears))

\* a source row was dropped, the order of the others was changed, and the
\* countries have different growth scores
C26_Witness ==
    /\ pc = "grown"
    /\ Len(strength_df.rows) = 2
    /\ Len(military_strength) = 3
    /\ strength_df.rows[1].country > strength_df.rows[2].country
    /\ \E j \in 1..7 : strength_df.rows[1].z[j] # strength_df.rows[2].z[j]
    /\ strength_df.rows[1].growth_score # strength_df.rows[2].growth_score
    /\ ~IsNaN(strength_df.rows[1].growth_score)

\* C27: the Estimator and the Ranker neither add, drop nor duplicate
\* countries: the Estimator's table holds the Scorer's rows in the same
\* order, and the Ranker's table is a permutation of the Estimator's rows
\* with the same strength_score, growth_score, growth_score_normalized and
\* pwr_index for every country.
C27_SameCountries ==
    [][/\ (pc = "scored") =>
             (/\ Len(strength_df'.rows) = Len(strength_df.rows)
              /\ \A r \in OutRows :
                    /\ strength_df'.rows[r].country = strength_df.rows[r].country
                    /\ strength_df'.rows[r].z = strength_df.rows[r].z
                    /\ strength_df'.rows[r].strength_score = strength_df.rows[r].strength_score
                    /\ strength_df'.rows[r].pwr_index = strength_df.rows[r].pwr_index)
       /\ (pc = "grown" /\ pc' = "ranked") =>
             (/\ Len(future_ranking'.rows) = Len(strength_df.rows)
              /\ \A r \in OutRows :
                    Cardinality({q \in 1..Len(future_ranking'.rows) :
                        /\ future_ranking'.rows[q].country = strength_df.rows[r].country
                        /\ future_ranking'.rows[q].strength_score
                              = strength_df.rows[r].strength_score
                        /\ future_ranking'.rows[q].growth_score
                              = strength_df.rows[r].growth_score
                        /\ future_ranking'.rows[q].growth_score_normalized
                              = strength_df.rows[r].growth_score_normalized
                        /\ future_ranking'.rows[q].pwr_index
                              = strength_df.rows[r].pwr_index}) = 1)
      ]_vars

\* a ranking of three countries, one of them without a projection_score,
\* in another order than the Estimator's table
C27_Witness ==
    /\ pc = "ranked"
    /\ Len(future_ranking.rows) = 3
    /\ \E r \in 1..3 : future_ranking.rows[r].country # strength_df.rows[r].country
    /\ IsNaN(future_ranking.rows[3].projection_score)

\* the growth_score of country c is the sentinel 0: it has no budget row,
\* fewer than six numbers in the year columns in range, or np.isnan raised
Sentinel(c) ==
    \/ ~HasBudget(c)
    \/ StringInRange
    \/ Cardinality(NumYears(BudgetValOf(c))) < 6

\* C28: a country whose growth_score is the sentinel 0 gets the
\* growth_score_normalized (0 - min) / (max - min); that is above 0, and
\* above the value of every country with a negative growth_score, when some
\* country has a negative growth_score, and it is 0 only when none has.
C28_SentinelCredited ==
    pc \in {"grown", "ranked"} =>
        \A r \in OutRows :
            Sentinel(strength_df.rows[r].country) =>
                /\ strength_df.rows[r].growth_score = Zero
                /\ RLess(MinGrowth, MaxGrowth) =>
                      strength_df.rows[r].growth_score_normalized
                        = RDiv(RSub(Zero, MinGrowth), RSub(MaxGrowth, MinGrowth))
                /\ \A q \in OutRows :
                      RLess(strength_df.rows[q].growth_score, Zero) =>
                          /\ RLess(Zero, strength_df.rows[r].growth_score_normalized)
                          /\ RLess(strength_df.rows[q].growth_score_normalized,
                                   strength_df.rows[r].growth_score_normalized)
                /\ strength_df.rows[r].growth_score_normalized = Zero =>
                      \A q \in OutRows : ~RLess(strength_df.rows[q].growth_score, Zero)

\* a country without enough values, one with a negative and one with a
\* positive growth_score: the first is credited a part of the range
C28_Witness ==
    /\ pc = "grown"
    /\ \E r, q, t \in OutRows :
          /\ Sentinel(strength_df.rows[r].country)
          /\ RLess(strength_df.rows[q].growth_score, Zero)
          /\ RLess(Zero, strength_df.rows[t].growth_score)
          /\ RLess(Zero, strength_df.rows[r].growth_score_normalized)
          /\ RLess(strength_df.rows[r].growth_score_normalized, One)

\* C29: when exactly one country has all seven indicators, its
\* strength_score is 0, its growth_score_normalized is 0 and its
\* projection_score is -0.2 * pwr_index, whatever the target year.
C29_SingleSurvivor ==
    (pc \in {"scored", "grown", "ranked"} /\ Cardinality(CompleteSrc) = 1) =>
        /\ Len(strength_df.rows) = 1
        /\ strength_df.rows[1].strength_score = Zero
        /\ pc # "scored" => strength_df.rows[1].growth_score_normalized = Zero
        /\ pc = "ranked" =>
              /\ Len(future_ranking.rows) = 1
              /\ future_ranking.rows[1].projection_score
                    = Rat(-2 * military_strength[SrcRowOf(future_ranking.rows[1].country)].pwr_index.v,
                          100)

\* the one complete country of three, with a budget series of its own,
\* ranked for 2034 and for 2047
C29_Witness ==
    /\ pc = "ranked"
    /\ Len(military_strength) = 3
    /\ Cardinality(CompleteSrc) = 1
    /\ future_ranking.rows[1].country = 3
    /\ RLess(Zero, future_ranking.rows[1].growth_score)
    /\ target_year = 2034
    /\ future_ranking.rows[1].projection_score = <<-3, 50>>

\* the budget table without its columns outside 2000..2020, and with cell
\* x in every row of those columns
InRangeOnly ==
    [defense_budget EXCEPT !.columns = @ \cap (2000..2020)]

Rewritten(x) ==
    [defense_budget EXCEPT !.rows =
        AsSeq([i \in 1..Len(defense_budget.rows) |->
            [defense_budget.rows[i] EXCEPT !.val =
                [y \in DOMAIN @ |-> IF y \in 2000..2020 THEN @[y] ELSE x]]])]

\* C23: a country's growth_score is made of the year columns 2000 to 2020
\* the budget table has, both ends included: it is the same when the
\* columns before 2000 and after 2020 are removed, emptied or filled with
\* other values, and where a slope is fitted it is the slope over the
\* years in range that hold a value, the empty ones left out.
C23_YearsInRangeOnly ==
    pc = "grown" =>
        \A r \in OutRows :
            LET c == strength_df.rows[r].country
                g == strength_df.rows[r].growth_score
            IN  /\ g = GrowthOf(military_strength, InRangeOnly, c).g
                /\ \A x \in {Null, Text} :
                      g = GrowthOf(military_strength, Rewritten(x), c).g
                /\ (HasBudget(c) /\ ~StringInRange
                     /\ Cardinality(NumYears(BudgetValOf(c))) > 5)
                      => g = OlsSlope(Points(BudgetValOf(c), RangeYears))

\* a country with values in 1999, 2000, 2020 and 2021 whose series is not
\* a line, and a country with empty years inside the range and a slope
C23_Witness ==
    /\ pc = "grown"
    /\ \E r \in OutRows :
          LET val == BudgetValOf(strength_df.rows[r].country)
          IN  /\ \A y \in {1999, 2000, 2020, 2021} :
                    y \in defense_budget.columns /\ val[y].k = "num"
              /\ val[2001].v - val[2000].v # val[2003].v - val[2002].v
              /\ ~IsNaN(strength_df.rows[r].growth_score)
              /\ strength_df.rows[r].growth_score # Zero
    /\ \E r \in OutRows :
          LET val == BudgetValOf(strength_df.rows[r].country)
          IN  /\ \E y \in RangeYears : val[y].k = "nan"
              /\ strength_df.rows[r].growth_score # Zero

\* the budget rows with the code of country c, a country with a code
CodeRows(c) ==
    {i \in 1..Len(defense_budget.rows) :
        /\ military_strength[SrcRowOf(c)].country_code.k = "num"
        /\ defense_budget.rows[i].code = military_strength[SrcRowOf(c)].country_code}

\* C30: a country whose code is in the lookup gets the growth_score 0,
\* without an exception, when the budget table has no row with that code
\* or none of the year columns 2000..2020; when the table has several rows
\* with the code, the first of them is the one used.
C30_MissingRowFirstRow ==
    /\ pc \in {"error", "uncaught"} => raised = "TypeError"
    /\ pc = "grown" =>
          \A r \in OutRows :
              LET c == strength_df.rows[r].country
                  g == strength_df.rows[r].growth_score
              IN  /\ (military_strength[SrcRowOf(c)].country_code.k = "num"
                       /\ (CodeRows(c) = {} \/ RangeYears = {})) => g = Zero
                  /\ (Cardinality(CodeRows(c)) > 1 /\ RangeYears # {} /\ ~StringInRange)
                        => g = OlsSlope(Points(
                                 defense_budget.rows[CHOOSE i \in CodeRows(c) :
                                     \A k \in CodeRows(c) : i <= k].val, RangeYears))

\* a country with a code and no budget row
C30_Witness ==
    /\ pc = "grown"
    /\ \E r, q \in OutRows :
          /\ military_strength[SrcRowOf(strength_df.rows[r].country)].country_code.k = "num"
          /\ CodeRows(strength_df.rows[r].country) = {}
          /\ strength_df.rows[r].growth_score = Zero
          /\ strength_df.rows[q].growth_score # Zero

====
